---- MODULE Spec2Model ----
(***************************************************************************)
(* A model of the SerenaCLI clients: the result normalizer                 *)
(* (serena_cli.main.transform_symbol_result), the command dispatch and      *)
(* output pipeline of serena_cli.main.main_async, and client.run_query.     *)
(*                                                                         *)
(* Python strings are sequences of one-character strings, so that split,   *)
(* lower(), the index-suffix regular expression, str(int) and              *)
(* os.path.splitext are computed and not assumed.  A Python dict is a       *)
(* function whose domain is its key set.                                    *)
(***************************************************************************)
EXTENDS Integers, Sequences, FiniteSets, TLC

(***************************************************************************)
(* Bounds of the model.                                                    *)
(***************************************************************************)
MaxPathLen == 4
MaxLine == 2
MaxApply == 2
MaxNegKind == 2
MaxKind == 28

(***************************************************************************)
(* Strings.                                                                *)
(***************************************************************************)
UpperChars == <<"A", "B", "C", "D", "E", "F", "G", "H", "I", "J", "K", "L", "M", "N", "O", "P", "Q", "R", "S", "T", "U", "V", "W", "X", "Y", "Z">>
LowerChars == <<"a", "b", "c", "d", "e", "f", "g", "h", "i", "j", "k", "l", "m", "n", "o", "p", "q", "r", "s", "t", "u", "v", "w", "x", "y", "z">>
DigitChars == <<"0", "1", "2", "3", "4", "5", "6", "7", "8", "9">>

Range(s) == {s[i] : i \in DOMAIN s}

IsDigit(c) == c \in Range(DigitChars)

\* str.lower() on one character
LowerChar(c) ==
    IF c \in Range(UpperChars)
    THEN LowerChars[CHOOSE i \in DOMAIN UpperChars : UpperChars[i] = c]
    ELSE c

\* str.lower()
Lower(s) == [i \in DOMAIN s |-> LowerChar(s[i])]

\* str.endswith(c) for a one-character c
EndsWith(s, c) == Len(s) > 0 /\ s[Len(s)] = c

\* c in s, for a one-character c
Contains(s, c) == c \in Range(s)

\* str.rfind(c): the last index of c in s (1-based), 0 when c is not in s
RFind(s, c) ==
    IF Contains(s, c) THEN CHOOSE i \in DOMAIN s : s[i] = c /\ \A j \in (i+1)..Len(s) : s[j] # c
    ELSE 0

\* str.split(sep) for a one-character sep: the list of the pieces
RECURSIVE Split(_, _)
Split(s, sep) ==
    IF ~Contains(s, sep) THEN <<s>>
    ELSE LET i == CHOOSE k \in DOMAIN s : s[k] = sep /\ \A j \in 1..(k-1) : s[j] # sep
         IN <<SubSeq(s, 1, i-1)>> \o Split(SubSeq(s, i+1, Len(s)), sep)

\* str(n) for a natural number n
RECURSIVE NatToStr(_)
NatToStr(n) ==
    IF n < 10 THEN <<DigitChars[n+1]>>
    ELSE NatToStr(n \div 10) \o <<DigitChars[(n % 10) + 1]>>

\* str(n) for an integer n
IntToStr(n) == IF n < 0 THEN <<"-">> \o NatToStr(0 - n) ELSE NatToStr(n)

\* re.sub(r'\[\d+\]$', '', s): the leftmost match of '[' digits ']' that
\* ends the string is removed; s is returned when there is none
re_sub_index(s) ==
    LET Match(i) == /\ s[i] = "["
                    /\ Len(s) >= i + 2
                    /\ s[Len(s)] = "]"
                    /\ \A j \in (i+1)..(Len(s)-1) : IsDigit(s[j])
        starts == {i \in DOMAIN s : Match(i)}
    IN IF starts = {} THEN s
       ELSE SubSeq(s, 1, (CHOOSE i \in starts : \A j \in starts : i <= j) - 1)

\* os.path.splitext(p)[1] (posixpath): the extension starts at the last dot
\* of the last path component, unless that component has only leading dots
\* before it
splitext_ext(p) ==
    LET sepIndex == RFind(p, "/")
        dotIndex == RFind(p, ".")
    IN IF dotIndex > sepIndex
          /\ \E k \in (sepIndex+1)..(dotIndex-1) : p[k] # "."
       THEN SubSeq(p, dotIndex, Len(p))
       ELSE <<>>

(***************************************************************************)
(* Dicts.                                                                  *)
(***************************************************************************)
EmptyDict == [k \in {} |-> 0]

Has(d, k) == k \in DOMAIN d

\* d[k] = v
Put(d, k, v) == [x \in (DOMAIN d) \cup {k} |-> IF x = k THEN v ELSE d[x]]

\* d.get(k, default)
Get(d, k, default) == IF k \in DOMAIN d THEN d[k] ELSE default

\* A value that may or may not be a dict (isinstance(v, dict))
DictVal(d) == [isDict |-> TRUE, d |-> d]
NonDictVal == [isDict |-> FALSE, d |-> EmptyDict]

\* A kind value: an int or a str (isinstance(v, int))
IntKind(n) == [isInt |-> TRUE, n |-> n, s |-> <<>>]
StrKind(s) == [isInt |-> FALSE, n |-> 0, s |-> s]

(***************************************************************************)
(* The normalizer.                                                         *)
(***************************************************************************)
kinds == <<
    <<"F", "i", "l", "e">>, <<"M", "o", "d", "u", "l", "e">>, <<"N", "a", "m", "e", "s", "p", "a", "c", "e">>, <<"P", "a", "c", "k", "a", "g", "e">>, <<"C", "l", "a", "s", "s">>,
    <<"M", "e", "t", "h", "o", "d">>, <<"P", "r", "o", "p", "e", "r", "t", "y">>, <<"F", "i", "e", "l", "d">>, <<"C", "o", "n", "s", "t", "r", "u", "c", "t", "o", "r">>, <<"E", "n", "u", "m">>,
    <<"I", "n", "t", "e", "r", "f", "a", "c", "e">>, <<"F", "u", "n", "c", "t", "i", "o", "n">>, <<"V", "a", "r", "i", "a", "b", "l", "e">>, <<"C", "o", "n", "s", "t", "a", "n", "t">>, <<"S", "t", "r", "i", "n", "g">>,
    <<"N", "u", "m", "b", "e", "r">>, <<"B", "o", "o", "l", "e", "a", "n">>, <<"A", "r", "r", "a", "y">>, <<"O", "b", "j", "e", "c", "t">>, <<"K", "e", "y">>,
    <<"N", "u", "l", "l">>, <<"E", "n", "u", "m", "M", "e", "m", "b", "e", "r">>, <<"S", "t", "r", "u", "c", "t">>, <<"E", "v", "e", "n", "t">>, <<"O", "p", "e", "r", "a", "t", "o", "r">>,
    <<"T", "y", "p", "e", "P", "a", "r", "a", "m", "e", "t", "e", "r">> >>

get_symbol_kind_name(kind_id) ==
    IF kind_id \in DOMAIN kinds THEN kinds[kind_id] ELSE IntToStr(kind_id)

\* name_from_path taking the first segment instead of the last
name_from_path_first(name_path) ==
    LET parts == Split(name_path, "/")
        last_part == parts[1]
    IN IF Contains(last_part, "[") /\ EndsWith(last_part, "]")
       THEN re_sub_index(last_part)
       ELSE last_part

\* step 1: the name restored from name_path
name_from_path(name_path) ==
    LET parts == Split(name_path, "/")
        last_part == parts[Len(parts)]
    IN IF Contains(last_part, "[") /\ EndsWith(last_part, "]")
       THEN re_sub_index(last_part)
       ELSE last_part

\* restore_name with the test on name inverted
restore_name_inverted(item) ==
    IF Has(item, "name") /\ Has(item, "name_path")
    THEN Put(item, "name", name_from_path(item["name_path"]))
    ELSE item

restore_name(item) ==
    IF ~Has(item, "name") /\ Has(item, "name_path")
    THEN Put(item, "name", name_from_path(item["name_path"]))
    ELSE item

\* transform_kind without lower()
transform_kind_no_lower(item) ==
    IF Has(item, "kind") /\ item["kind"].isInt
    THEN Put(item, "kind", StrKind(get_symbol_kind_name(item["kind"].n)))
    ELSE item

\* step 2: an int kind becomes its lower-cased name
transform_kind(item) ==
    IF Has(item, "kind") /\ item["kind"].isInt
    THEN Put(item, "kind", StrKind(Lower(get_symbol_kind_name(item["kind"].n))))
    ELSE item

\* transform_range with body_location as the fallback of a range without
\* lines (the elif moved to the inner test)
transform_range_fallthrough(item) ==
    LET r == IF Has(item, "range") /\ item["range"].isDict THEN item["range"].d ELSE EmptyDict
        start == Get(r, "start", EmptyDict)
        end == Get(r, "end", EmptyDict)
    IN IF Has(start, "line") /\ Has(end, "line")
       THEN Put(item, "range",
                DictVal([start_line |-> start["line"], end_line |-> end["line"]]))
       ELSE IF Has(item, "body_location") /\ item["body_location"].isDict
            THEN Put(item, "range", item["body_location"])
            ELSE item

\* transform_range with the two lines exchanged
transform_range_swapped(item) ==
    IF Has(item, "range") /\ item["range"].isDict
    THEN LET r == item["range"].d
             start == Get(r, "start", EmptyDict)
             end == Get(r, "end", EmptyDict)
         IN IF Has(start, "line") /\ Has(end, "line")
            THEN Put(item, "range",
                     DictVal([start_line |-> end["line"], end_line |-> start["line"]]))
            ELSE item
    ELSE IF Has(item, "body_location") /\ item["body_location"].isDict
         THEN Put(item, "range", item["body_location"])
         ELSE item

\* step 3: the range
transform_range(item) ==
    IF Has(item, "range") /\ item["range"].isDict
    THEN LET r == item["range"].d
             start == Get(r, "start", EmptyDict)
             end == Get(r, "end", EmptyDict)
         IN IF Has(start, "line") /\ Has(end, "line")
            THEN Put(item, "range",
                     DictVal([start_line |-> start["line"], end_line |-> end["line"]]))
            ELSE item
    ELSE IF Has(item, "body_location") /\ item["body_location"].isDict
         THEN Put(item, "range", item["body_location"])
         ELSE item

\* ensure_file renaming relative_path to file
ensure_file_renamed(item) ==
    IF Has(item, "relative_path")
    THEN [k \in ((DOMAIN item) \ {"relative_path"}) \cup {"file"} |->
            IF k = "file" THEN item["relative_path"] ELSE item[k]]
    ELSE item

\* step 4: file
ensure_file(item) ==
    IF Has(item, "relative_path") THEN Put(item, "file", item["relative_path"]) ELSE item

\* guess_language without the test that language is missing
guess_language_always(item) ==
    IF Has(item, "file")
    THEN LET ext == splitext_ext(item["file"])
         IN IF ext = <<".", "p", "y">> THEN Put(item, "language", <<"p", "y", "t", "h", "o", "n">>)
            ELSE IF ext = <<".", "t", "s">> THEN Put(item, "language", <<"t", "y", "p", "e", "s", "c", "r", "i", "p", "t">>)
            ELSE IF ext = <<".", "j", "s">> THEN Put(item, "language", <<"j", "a", "v", "a", "s", "c", "r", "i", "p", "t">>)
            ELSE IF ext = <<".", "j", "a", "v", "a">> THEN Put(item, "language", <<"j", "a", "v", "a">>)
            ELSE item
    ELSE item

\* step 5: language guessed from the extension of file
guess_language(item) ==
    IF ~Has(item, "language") /\ Has(item, "file")
    THEN LET ext == splitext_ext(item["file"])
         IN IF ext = <<".", "p", "y">> THEN Put(item, "language", <<"p", "y", "t", "h", "o", "n">>)
            ELSE IF ext = <<".", "t", "s">> THEN Put(item, "language", <<"t", "y", "p", "e", "s", "c", "r", "i", "p", "t">>)
            ELSE IF ext = <<".", "j", "s">> THEN Put(item, "language", <<"j", "a", "v", "a", "s", "c", "r", "i", "p", "t">>)
            ELSE IF ext = <<".", "j", "a", "v", "a">> THEN Put(item, "language", <<"j", "a", "v", "a">>)
            ELSE item
    ELSE item

transform_symbol_result(item) ==
    guess_language(ensure_file(transform_range(transform_kind(restore_name(item)))))

(***************************************************************************)
(* Raw records.  A field option is either absent or present with a value.  *)
(***************************************************************************)
Absent == [present |-> FALSE, v |-> EmptyDict]
Present(v) == [present |-> TRUE, v |-> v]
Options(S) == {Absent} \cup {Present(v) : v \in S}

\* The dict that has exactly the present fields of a record of options
Strip(f) == [k \in {x \in DOMAIN f : f[x].present} |-> f[k].v]

\* All strings over the characters cs of length at most n
BoundedStrings(cs, n) == UNION {[1..k -> cs] : k \in 0..n}

Lines == 0..MaxLine

PathChars == {"a", "/", "[", "]", "0"}
NamePaths == BoundedStrings(PathChars, MaxPathLen)
    \cup {<<"M", "y", "C", "l", "a", "s", "s", "/", "m", "y", "_", "m", "e", "t", "h", "o", "d", "[", "0", "]">>, <<"M", "y", "C", "l", "a", "s", "s", "/", "m", "y", "_", "m", "e", "t", "h", "o", "d">>, <<"a", "/", "b", "[", "1", "2", "]">>,
          <<"f", "[", "x", "]">>, <<"f", "[", "]">>, <<"f", "[", "0", "]", "[", "1", "]">>, <<"g", "[", "0", "]", "/", "h">>}

KindValues ==
    {IntKind(n) : n \in (0 - MaxNegKind)..MaxKind}
        \cup {StrKind(<<"m", "e", "t", "h", "o", "d">>), StrKind(<<"C", "l", "a", "s", "s">>), StrKind(<<"6">>)}

LineDicts == {EmptyDict} \cup {[line |-> n] : n \in Lines}

RawRangeDicts ==
    {EmptyDict}
        \cup {[start |-> s] : s \in LineDicts}
        \cup {[end |-> e] : e \in LineDicts}
        \cup {[start |-> s, end |-> e] : s \in LineDicts, e \in LineDicts}

LocationDicts ==
    {[start_line |-> a, end_line |-> b] : a \in Lines, b \in Lines}
        \cup {[start_line |-> a] : a \in Lines}

RangeValues == {NonDictVal} \cup {DictVal(d) : d \in RawRangeDicts \cup LocationDicts}
LocationValues == {NonDictVal} \cup {DictVal(d) : d \in LocationDicts}

FilePaths ==
    {<<"s", "r", "c", "/", "f", "o", "o", ".", "p", "y">>, <<"s", "r", "c", "/", "b", "a", "r", ".", "t", "s">>, <<"x", ".", "j", "s">>, <<"A", ".", "j", "a", "v", "a">>, <<".", "p", "y">>, <<"a", ".", "P", "Y">>,
     <<"a", ".", "p", "y", "c">>, <<"d", "i", "r", ".", "p", "y", "/", "f", "i", "l", "e">>, <<"n", "o", "e", "x", "t">>, <<"a", ".", "b", ".", "p", "y">>, <<".", ".", "t", "s">>, <<"d", "/", ".", "j", "s">>, <<>>}

Languages == {<<"p", "y", "t", "h", "o", "n">>, <<"T", "y", "p", "e", "S", "c", "r", "i", "p", "t">>, <<"r", "u", "s", "t">>, <<>>}

\* Records that vary the name fields, the kind, the range fields, and the
\* file and language fields
NameRecords ==
    {Strip([name |-> n, name_path |-> Present(p)]) :
        n \in Options({<<"f", "o", "o">>}), p \in NamePaths}

KindRecords ==
    {Strip([name |-> n, kind |-> k]) :
        n \in Options({<<"f", "o", "o">>}), k \in Options(KindValues)}

RangeRecords ==
    {Strip([range |-> r, body_location |-> b]) :
        r \in Options(RangeValues), b \in Options(LocationValues)}

FileRecords ==
    {Strip([relative_path |-> p, file |-> f, language |-> l]) :
        p \in Options(FilePaths), f \in Options(FilePaths), l \in Options(Languages)}

\* Records that combine a few shapes of every field
MixedRecords ==
    {Strip([name |-> n, name_path |-> p, kind |-> k, range |-> r,
            body_location |-> b, relative_path |-> rp, file |-> f,
            language |-> l, content_around_reference |-> c, detail |-> d]) :
        n \in Options({<<"f", "o", "o">>}),
        p \in Options({<<"M", "y", "C", "l", "a", "s", "s", "/", "m", "y", "_", "m", "e", "t", "h", "o", "d", "[", "0", "]">>}),
        k \in Options({IntKind(6), IntKind(MaxKind), StrKind(<<"C", "l", "a", "s", "s">>)}),
        r \in Options({NonDictVal,
                       DictVal([start |-> [line |-> 0], end |-> [line |-> MaxLine]]),
                       DictVal([start |-> [line |-> 1]]),
                       DictVal([start_line |-> 0, end_line |-> MaxLine])}),
        b \in Options({NonDictVal, DictVal([start_line |-> 1, end_line |-> 2])}),
        rp \in Options({<<"s", "r", "c", "/", "f", "o", "o", ".", "p", "y">>, <<"n", "o", "e", "x", "t">>}),
        f \in Options({<<"s", "r", "c", "/", "b", "a", "r", ".", "t", "s">>}),
        l \in Options({<<"T", "y", "p", "e", "S", "c", "r", "i", "p", "t">>}),
        c \in Options({<<" ", "x", " ", "=", " ", "f", "o", "o", "(", ")", " ">>}),
        d \in Options({<<"d", "o", "c">>})}

RawRecords == NameRecords \cup KindRecords \cup RangeRecords \cup FileRecords \cup MixedRecords

(***************************************************************************)
(* Command lines and server responses of a client run.                     *)
(***************************************************************************)
MaxRecords == 2
MaxBlocks == 2
MaxLimit == 1

\* A list element that is not a dict (a JSON number)
Scalar == [scalar |-> <<"4", "2">>]
IsDictItem(it) == ~Has(it, "scalar")

SymPy ==
    [name_path |-> <<"M", "y", "C", "l", "a", "s", "s", "/", "m", "y", "_", "m", "e", "t", "h", "o", "d", "[", "0", "]">>, kind |-> IntKind(6),
     body_location |-> DictVal([start_line |-> 1, end_line |-> 2]),
     relative_path |-> <<"s", "r", "c", "/", "f", "o", "o", ".", "p", "y">>]
SymTs ==
    [name_path |-> <<"b", "a", "r">>, kind |-> IntKind(12), relative_path |-> <<"s", "r", "c", "/", "b", "a", "r", ".", "t", "s">>,
     range |-> DictVal([start |-> [line |-> 0], end |-> [line |-> 1]]),
     content_around_reference |-> <<" ", "x", " ", "=", " ", "b", "a", "r", "(", ")", " ">>]
SymBare == [name |-> <<"q", "u", "x">>, range |-> NonDictVal]

SampleRecords == {SymPy, SymTs, SymBare}

\* A content block: TextContent whose text is a JSON list, a JSON object, a
\* JSON scalar or no JSON at all, or a block of another type.  items is what
\* json.loads(text) gives; text is kept for a block that is not JSON.
ListBlock(items) == [type |-> "text", json |-> "list", items |-> items, text |-> <<>>]
DictBlock(it) == [type |-> "text", json |-> "dict", items |-> <<it>>, text |-> <<>>]
ScalarBlock == [type |-> "text", json |-> "scalar", items |-> <<Scalar>>, text |-> <<>>]
InvalidBlock(t) == [type |-> "text", json |-> "invalid", items |-> <<>>, text |-> t]
ImageBlock == [type |-> "image", json |-> "invalid", items |-> <<>>, text |-> <<>>]

SeqsUpTo(S, n) == UNION {[1..k -> S] : k \in 0..n}

\* the lists of distinct sample records, and a list with an element that
\* is no dict
ItemLists ==
    {l \in SeqsUpTo(SampleRecords, MaxRecords) :
        \A i \in DOMAIN l : \A j \in DOMAIN l : i # j => l[i] # l[j]}
        \cup {<<Scalar>>}

Blocks ==
    {ListBlock(l) : l \in ItemLists}
        \cup {DictBlock(it) : it \in SampleRecords}
        \cup {ScalarBlock, InvalidBlock(<<"o", "o", "p", "s">>), ImageBlock}

RECURSIVE CountItems(_)
CountItems(content) ==
    IF content = <<>> THEN 0 ELSE Len(Head(content).items) + CountItems(Tail(content))

OkResults ==
    {[isError |-> FALSE, content |-> c] :
        c \in {x \in SeqsUpTo(Blocks, MaxBlocks) : CountItems(x) <= MaxRecords}}
ErrorResults ==
    {[isError |-> TRUE, content |-> c] :
        c \in {<<>>, <<InvalidBlock(<<"n", "o", " ", "s", "u", "c", "h", " ", "s", "y", "m", "b", "o", "l">>)>>,
               <<ImageBlock, InvalidBlock(<<"n", "o", " ", "s", "u", "c", "h", " ", "s", "y", "m", "b", "o", "l">>)>>}}
Results == OkResults \cup ErrorResults
NoResult == [isError |-> FALSE, content |-> <<>>]

NameArgs == {<<"m", "y", "_", "m", "e", "t", "h", "o", "d">>}
PathArgs == {<<"s", "r", "c", "/", "f", "o", "o", ".", "p", "y">>}
LanguageArgs == {<<"T", "y", "p", "e", "S", "c", "r", "i", "p", "t">>, <<>>}
\* --limit: a negative number, zero, and the positive numbers up to MaxLimit
LimitArgs == (0 - 1)..MaxLimit

NoStr == [present |-> FALSE, v |-> <<>>]
NoInt == [present |-> FALSE, v |-> 0]
OptStr(S) == {NoStr} \cup {[present |-> TRUE, v |-> s] : s \in S}
OptInt(S) == {NoInt} \cup {[present |-> TRUE, v |-> n] : n \in S}

\* argparse namespaces of serena_cli
MainArgs ==
    [query_command : {"find-symbol"}, name : OptStr(NameArgs) \ {NoStr}, path : {NoStr},
     language : OptStr(LanguageArgs), limit : OptInt(LimitArgs),
     format : {"text", "json"}, server_command : {NoStr}]
    \cup
    [query_command : {"file-overview"}, name : {NoStr}, path : OptStr(PathArgs) \ {NoStr},
     language : {NoStr}, limit : {NoInt},
     format : {"text", "json"}, server_command : {NoStr}]
    \cup
    [query_command : {"references"}, name : OptStr(NameArgs) \ {NoStr},
     path : OptStr(PathArgs) \ {NoStr}, language : {NoStr}, limit : {NoInt},
     format : {"text", "json"}, server_command : {NoStr}]

\* argparse namespaces of client.py; run_query also accepts a namespace
\* whose subcommand is none of the three
ClientArgs ==
    [query_command : {"find-symbol"}, name : OptStr(NameArgs) \ {NoStr},
     path : {NoStr}, language : {NoStr}, limit : OptInt(LimitArgs),
     format : {"text", "json"}, server_command : {NoStr}]
    \cup
    [query_command : {"file-overview", "other"}, name : {NoStr},
     path : OptStr(PathArgs) \ {NoStr}, language : {NoStr}, limit : {NoInt},
     format : {"text", "json"}, server_command : OptStr({<<"s", "e", "r", "e", "n", "a">>})]
    \cup
    [query_command : {"references"}, name : OptStr(NameArgs) \ {NoStr},
     path : OptStr(PathArgs) \ {NoStr}, language : {NoStr}, limit : {NoInt},
     format : {"text", "json"}, server_command : {NoStr}]

(***************************************************************************)
(* Output pipeline helpers.                                                *)
(***************************************************************************)
Min(a, b) == IF a < b THEN a ELSE b
Max(a, b) == IF a > b THEN a ELSE b

\* s[:n] (Python slice, n may be negative)
SliceTo(s, n) ==
    IF n >= 0 THEN SubSeq(s, 1, Min(n, Len(s))) ELSE SubSeq(s, 1, Max(Len(s) + n, 0))

Whitespace == {" ", "\n", "\t"}

\* str.strip()
RECURSIVE LStrip(_)
LStrip(s) == IF s # <<>> /\ Head(s) \in Whitespace THEN LStrip(Tail(s)) ELSE s
RECURSIVE RStrip(_)
RStrip(s) ==
    IF s # <<>> /\ s[Len(s)] \in Whitespace THEN RStrip(SubSeq(s, 1, Len(s) - 1)) ELSE s
StripStr(s) == RStrip(LStrip(s))

\* f"{s:<w}"
LeftAlign(s, w) == s \o [i \in 1..(w - Len(s)) |-> " "]

\* What print() wrote: a line of text, or the JSON document {"results": [...]}
TextOut(t) == [tag |-> "text", text |-> t, results |-> <<>>]
JsonOut(rs) == [tag |-> "json", text |-> <<>>, results |-> rs]

\* What went to the error stream
ErrOut(tag, t) == [tag |-> tag, text |-> t]

\* main_parse giving up at the first text block that is not JSON
RECURSIVE main_parse_abort(_)
main_parse_abort(content) ==
    IF content = <<>> THEN <<>>
    ELSE LET b == Head(content)
         IN IF b.type = "text" /\ b.json = "invalid" THEN <<>>
            ELSE (IF b.type = "text" /\ b.json \in {"list", "dict"} THEN b.items ELSE <<>>)
                    \o main_parse_abort(Tail(content))

\* json.loads over the text blocks of serena_cli: a list extends, an object
\* appends, any other JSON value is dropped
RECURSIVE main_parse(_)
main_parse(content) ==
    IF content = <<>> THEN <<>>
    ELSE LET b == Head(content)
         IN (IF b.type = "text" /\ b.json \in {"list", "dict"} THEN b.items ELSE <<>>)
                \o main_parse(Tail(content))

\* the warnings of serena_cli for the text blocks that are not JSON
RECURSIVE main_warnings(_)
main_warnings(content) ==
    IF content = <<>> THEN <<>>
    ELSE LET b == Head(content)
         IN (IF b.type = "text" /\ b.json = "invalid"
             THEN <<ErrOut("warning", <<"W", "a", "r", "n", "i", "n", "g", ":", " ", "N", "o", "n", "-", "J", "S", "O", "N", " ", "r", "e", "s", "p", "o", "n", "s", "e", " ", "r", "e", "c", "e", "i", "v", "e", "d", ":", " ">> \o b.text)>>
             ELSE <<>>)
                \o main_warnings(Tail(content))

\* main_filter comparing without lower()
main_filter_case_sensitive(args, data) ==
    IF args.query_command = "find-symbol" /\ args.language.present /\ args.language.v # <<>>
    THEN LET target_lang == args.language.v
             Keep(it) == Get(it, "language", <<>>) = target_lang
         IN SelectSeq(data, Keep)
    ELSE data

\* the language filter of serena_cli
main_filter(args, data) ==
    IF args.query_command = "find-symbol" /\ args.language.present /\ args.language.v # <<>>
    THEN LET target_lang == Lower(args.language.v)
             Keep(it) == Lower(Get(it, "language", <<>>)) = target_lang
         IN SelectSeq(data, Keep)
    ELSE data

\* the limit of serena_cli
main_limit(args, data) ==
    IF args.query_command = "find-symbol" /\ args.limit.present /\ args.limit.v # 0
    THEN SliceTo(data, args.limit.v)
    ELSE data

\* main_select limiting before it filters
main_select_limit_first(args, data) == main_filter(args, main_limit(args, data))

\* the language filter, then the limit
main_select(args, data) == main_limit(args, main_filter(args, data))

\* item.get("range", {}).get("start_line", "?") raises when range is no dict
main_start_line_raises(it) == Has(it, "range") /\ ~it["range"].isDict
main_start_line(it) ==
    LET r == Get(it, "range", DictVal(EmptyDict)).d
    IN IF Has(r, "start_line") THEN IntToStr(r["start_line"]) ELSE <<"?">>

main_kind(it) == IF Has(it, "kind") THEN it["kind"].s ELSE <<"?">>

\* the lines serena_cli prints for one record in text mode
main_item_lines(cmd, it) ==
    IF cmd = "find-symbol"
    THEN <<TextOut(LeftAlign(Get(it, "name", <<"?">>), 30) \o <<" ">> \o LeftAlign(main_kind(it), 15)
                   \o <<" ">> \o Get(it, "file", <<"?">>) \o <<":">> \o main_start_line(it))>>
    ELSE IF cmd = "file-overview"
    THEN <<TextOut(LeftAlign(main_kind(it), 15) \o <<" ">> \o LeftAlign(Get(it, "name", <<"?">>), 30)
                   \o <<" ", "(", "L", "i", "n", "e", " ">> \o main_start_line(it) \o <<")">>)>>
    ELSE LET snippet == StripStr(Get(it, "content_around_reference", <<>>))
         IN <<TextOut(<<"R", "e", "f", "e", "r", "e", "n", "c", "e", "d", " ", "i", "n", " ">> \o Get(it, "file", <<"?">>) \o <<":">>
                      \o main_start_line(it))>>
            \o (IF snippet # <<>>
                THEN <<TextOut(<<" ", " ", "C", "o", "d", "e", ":">> \o <<"\n">> \o snippet \o <<"\n">>)>>
                ELSE <<>>)

\* the loop over the records in text mode: what was printed, and whether
\* the loop raised
RECURSIVE main_text_loop(_, _)
main_text_loop(cmd, data) ==
    IF data = <<>> THEN [out |-> <<>>, raised |-> FALSE]
    ELSE IF main_start_line_raises(Head(data)) THEN [out |-> <<>>, raised |-> TRUE]
    ELSE LET rest == main_text_loop(cmd, Tail(data))
         IN [out |-> main_item_lines(cmd, Head(data)) \o rest.out, raised |-> rest.raised]

\* main_empty_line printing the line of find-symbol for every subcommand
main_empty_line_shared(cmd) == <<"N", "o", " ", "s", "y", "m", "b", "o", "l", "s", " ", "f", "o", "u", "n", "d", ".">>

main_empty_line(cmd) ==
    IF cmd = "find-symbol" THEN <<"N", "o", " ", "s", "y", "m", "b", "o", "l", "s", " ", "f", "o", "u", "n", "d", ".">>
    ELSE IF cmd = "file-overview" THEN <<"N", "o", " ", "s", "y", "m", "b", "o", "l", "s", " ", "f", "o", "u", "n", "d", " ", "i", "n", " ", "f", "i", "l", "e", ".">>
    ELSE <<"N", "o", " ", "r", "e", "f", "e", "r", "e", "n", "c", "e", "s", " ", "f", "o", "u", "n", "d", ".">>

main_output(args, data) ==
    IF args.format = "json" THEN [out |-> <<JsonOut(data)>>, raised |-> FALSE]
    ELSE LET loop == main_text_loop(args.query_command, data)
         IN [out |-> (IF data = <<>> THEN <<TextOut(main_empty_line(args.query_command))>>
                      ELSE <<>>) \o loop.out,
             raised |-> loop.raised]

\* the text of the text blocks of an error response
RECURSIVE main_error_lines(_)
main_error_lines(content) ==
    IF content = <<>> THEN <<>>
    ELSE (IF Head(content).type = "text"
          THEN <<ErrOut("tool_error", Head(content).text)>> ELSE <<>>)
            \o main_error_lines(Tail(content))

\* the tool call of serena_cli for a subcommand
main_tool_name(args) ==
    IF args.query_command = "find-symbol" THEN "find_symbol"
    ELSE IF args.query_command = "file-overview" THEN "get_symbols_overview"
    ELSE IF args.query_command = "references" THEN "find_referencing_symbols"
    ELSE ""

\* main_tool_args passing the language hint to the tool
main_tool_args_with_language(args) ==
    IF args.query_command = "find-symbol"
    THEN (IF args.language.present
          THEN [name_path_pattern |-> args.name.v, language |-> args.language.v]
          ELSE [name_path_pattern |-> args.name.v])
    ELSE IF args.query_command = "file-overview" THEN [relative_path |-> args.path.v]
    ELSE IF args.query_command = "references"
    THEN [name_path |-> args.name.v, relative_path |-> args.path.v]
    ELSE EmptyDict

main_tool_args(args) ==
    IF args.query_command = "find-symbol" THEN [name_path_pattern |-> args.name.v]
    ELSE IF args.query_command = "file-overview" THEN [relative_path |-> args.path.v]
    ELSE IF args.query_command = "references"
    THEN [name_path |-> args.name.v, relative_path |-> args.path.v]
    ELSE EmptyDict

(***************************************************************************)
(* Output of client.py (format_plain_text).                                *)
(***************************************************************************)
\* json.loads over the text blocks of client.py: a list extends, any other
\* JSON value appends
RECURSIVE run_parse(_)
run_parse(content) ==
    IF content = <<>> THEN <<>>
    ELSE LET b == Head(content)
         IN (IF b.type = "text" /\ b.json # "invalid" THEN b.items ELSE <<>>)
                \o run_parse(Tail(content))

\* the limit of client.py
run_limit(args, data) ==
    IF args.query_command = "find-symbol" /\ args.limit.present /\ args.limit.v # 0
       /\ args.limit.v > 0
    THEN SliceTo(data, args.limit.v)
    ELSE data

run_name(sym) == Get(sym, "name_path", Get(sym, "name", <<"u", "n", "k", "n", "o", "w", "n">>))

run_kind(sym) ==
    IF Has(sym, "kind")
    THEN (IF sym["kind"].isInt THEN IntToStr(sym["kind"].n) ELSE sym["kind"].s)
    ELSE <<"u", "n", "k", "n", "o", "w", "n">>

\* the start line is looked up in body_location, selection_range, range, in
\* this order; .get on a value that is no dict raises
run_line_raises(sym) ==
    \/ ~IsDictItem(sym)
    \/ IF Has(sym, "body_location") THEN ~sym["body_location"].isDict
       ELSE IF Has(sym, "selection_range") THEN ~sym["selection_range"].isDict
       ELSE IF Has(sym, "range") THEN ~sym["range"].isDict
       ELSE FALSE

run_line(sym) ==
    LET Nested(r) ==
            LET start == Get(r, "start", EmptyDict)
            IN IF Has(start, "line") THEN IntToStr(start["line"]) ELSE <<"?">>
    IN IF Has(sym, "body_location")
       THEN (IF Has(sym["body_location"].d, "start_line")
             THEN IntToStr(sym["body_location"].d["start_line"]) ELSE <<"?">>)
       ELSE IF Has(sym, "selection_range") THEN Nested(sym["selection_range"].d)
       ELSE IF Has(sym, "range") THEN Nested(sym["range"].d)
       ELSE <<"?">>

run_item_raises(command, sym) ==
    IF command = "file-overview" THEN ~IsDictItem(sym) ELSE run_line_raises(sym)

run_item_lines(command, sym) ==
    IF command = "find-symbol"
    THEN <<TextOut(run_name(sym) \o <<" ", "(">> \o run_kind(sym) \o <<")", " ", "-", " ">>
                   \o Get(sym, "relative_path", <<"u", "n", "k", "n", "o", "w", "n">>) \o <<":">> \o run_line(sym))>>
    ELSE IF command = "file-overview"
    THEN <<TextOut(<<" ", " ", "-", " ">> \o run_name(sym) \o <<" ", "(">> \o run_kind(sym) \o <<")">>)>>
    ELSE <<TextOut(<<"R", "e", "f", "e", "r", "e", "n", "c", "e", "d", " ", "b", "y", " ">> \o run_name(sym) \o <<" ", "i", "n", " ">>
                   \o Get(sym, "relative_path", <<"u", "n", "k", "n", "o", "w", "n">>) \o <<":">> \o run_line(sym))>>
         \o (IF Has(sym, "content_around_reference")
             THEN <<TextOut(<<" ", " ", " ", " ", "S", "n", "i", "p", "p", "e", "t", ":", " ">> \o StripStr(sym["content_around_reference"]))>>
             ELSE <<>>)

RECURSIVE run_text_loop(_, _)
run_text_loop(command, data) ==
    IF data = <<>> THEN [out |-> <<>>, raised |-> FALSE]
    ELSE IF run_item_raises(command, Head(data)) THEN [out |-> <<>>, raised |-> TRUE]
    ELSE LET rest == run_text_loop(command, Tail(data))
         IN [out |-> run_item_lines(command, Head(data)) \o rest.out, raised |-> rest.raised]

format_plain_text(command, data) ==
    LET loop == run_text_loop(command, data)
    IN [out |-> (IF command = "file-overview" THEN <<TextOut(<<"F", "i", "l", "e", " ", "O", "v", "e", "r", "v", "i", "e", "w", ":">>)>> ELSE <<>>)
                    \o loop.out,
        raised |-> loop.raised]

run_output(args, data) ==
    IF args.format = "json" THEN [out |-> <<JsonOut(data)>>, raised |-> FALSE]
    ELSE format_plain_text(args.query_command, data)

run_tool_name(args) ==
    IF args.query_command = "find-symbol" THEN "find_symbol"
    ELSE IF args.query_command = "file-overview" THEN "get_symbols_overview"
    ELSE "find_referencing_symbols"

run_tool_args(args) ==
    IF args.query_command = "find-symbol"
    THEN [name_path_pattern |-> args.name.v,
          relative_path |-> (IF args.path.present /\ args.path.v # <<>> THEN args.path.v ELSE <<>>),
          max_answer_chars |-> -1]
    ELSE IF args.query_command = "file-overview" THEN [relative_path |-> args.path.v]
    ELSE [name_path |-> args.name.v, relative_path |-> args.path.v, max_answer_chars |-> -1]

(***************************************************************************)
(* The native wrapper (serena_native): inputs and output.                  *)
(***************************************************************************)
\* os.getcwd(), the project root when --project-root is not given
Cwd == <<"/", "w", "o", "r", "k">>
NativeRoots == {<<"/", "p", "r", "o", "j">>}

\* argparse namespaces of the native wrapper for no command, for query
\* without a subcommand and for the three query subcommands ("" is None)
NativeArgs ==
    [command : {"", "query"}, subcommand : {""}, name : {NoStr}, path : {NoStr},
     language : {NoStr}, format : {"text", "json"}, project_root : {NoStr}]
    \cup
    [command : {"query"}, subcommand : {"find-symbol"}, name : OptStr(NameArgs) \ {NoStr},
     path : {NoStr}, language : OptStr({<<"T", "y", "p", "e", "S", "c", "r", "i", "p", "t">>}), format : {"text", "json"},
     project_root : OptStr(NativeRoots)]
    \cup
    [command : {"query"}, subcommand : {"file-overview"}, name : {NoStr},
     path : OptStr(PathArgs) \ {NoStr}, language : {NoStr}, format : {"text", "json"},
     project_root : OptStr(NativeRoots)]
    \cup
    [command : {"query"}, subcommand : {"references"}, name : OptStr(NameArgs) \ {NoStr},
     path : OptStr(PathArgs) \ {NoStr}, language : {NoStr}, format : {"text", "json"},
     project_root : OptStr(NativeRoots)]

\* what tool.apply returns: a string that is a JSON list, or no JSON
NativeReplies == {ListBlock(l) : l \in ItemLists} \cup {InvalidBlock(<<"o", "o", "p", "s">>)}

\* Config().project_root after set_project_root(args.project_root)
native_project_root(a) ==
    IF a.project_root.present /\ a.project_root.v # <<>> THEN a.project_root.v ELSE Cwd

\* What the native wrapper prints: json.dumps(result), json.dumps({"error":
\* str(e)}), the usage text, and print(item) of a record
BareJsonOut(v) == [tag |-> "json_value", text |-> <<>>, results |-> v]
ErrorJsonOut(msg) == [tag |-> "json_error", text |-> msg, results |-> <<>>]
HelpOut == [tag |-> "help", text |-> <<>>, results |-> <<>>]
ReprOut(it) == [tag |-> "repr", text |-> <<>>, results |-> <<it>>]

\* json.loads(result_json), or the error record for a reply that is no JSON
native_loads(reply) ==
    IF reply.json = "invalid"
    THEN <<[error |-> <<"F", "a", "i", "l", "e", "d", " ", "t", "o", " ", "p", "a", "r", "s", "e", " ", "J", "S", "O", "N", " ", "r", "e", "s", "p", "o", "n", "s", "e">>, raw |-> reply.text]>>
    ELSE reply.items

native_kind(it) ==
    IF Has(it, "kind")
    THEN (IF it["kind"].isInt THEN IntToStr(it["kind"].n) ELSE it["kind"].s)
    ELSE <<"u", "n", "k", "n", "o", "w", "n">>

\* the line print_text_output prints for one element of a query result
native_item_line(it) ==
    IF Has(it, "name")
    THEN TextOut(it["name"] \o <<" ", "(">> \o native_kind(it) \o <<")", " ", "-", " ">>
                 \o Get(it, "relative_path", Get(it, "file", <<"u", "n", "k", "n", "o", "w", "n">>)))
    ELSE IF Has(it, "error") THEN TextOut(<<"E", "r", "r", "o", "r", ":", " ">> \o it["error"])
    ELSE ReprOut(it)

\* the loop of print_text_output; "name" in item raises on an element that
\* is no dict
RECURSIVE native_text_loop(_)
native_text_loop(data) ==
    IF data = <<>> THEN [out |-> <<>>, raised |-> FALSE]
    ELSE IF ~IsDictItem(Head(data)) THEN [out |-> <<>>, raised |-> TRUE]
    ELSE LET rest == native_text_loop(Tail(data))
         IN [out |-> <<native_item_line(Head(data))>> \o rest.out, raised |-> rest.raised]

\* the output handling of cli.main for a query result
native_output(a, data) ==
    IF a.format = "json" THEN [out |-> <<BareJsonOut(data)>>, raised |-> FALSE]
    ELSE native_text_loop(data)

(***************************************************************************)
(* State.                                                                  *)
(***************************************************************************)
VARIABLES
    raw,          \* normalizer: the record the server returned
    item,         \* normalizer: the record as the normalizer has left it
    prev,         \* normalizer: item before the last application
    applied,      \* normalizer: number of applications to raw
    client,       \* "serena_cli" (main_async), "client" (run_query), "native" or "none"
    args,         \* the parsed command line
    pc,           \* where the run is
    channel,      \* the transport channel: "unopened", "open", "closed"
    session,      \* the ClientSession: "unopened", "open", "closed"
    initialized,  \* session.initialize() has completed
    calls,        \* the call_tool requests issued, in order
    result,       \* the CallToolResult received
    pending,      \* what is propagating: "none", "exception", "exit" (SystemExit)
    output_data,  \* the final record list
    stdout,       \* what was printed to the output stream
    stderr,       \* what was printed to the error stream
    exit_code,    \* exit code of the process, once pc = "done"
    available,    \* native wrapper: SERENA_AVAILABLE, the serena package was imported
    agent,        \* native wrapper: SerenaClient.agent, "none" or "created"
    error         \* native wrapper: str(e) of the exception that is propagating

nvars == <<raw, item, prev, applied>>
rvars == <<client, args, pc, channel, session, initialized, calls, result, pending,
           output_data, stdout, stderr, exit_code>>
wvars == <<available, agent, error>>
vars == <<raw, item, prev, applied, client, args, pc, channel, session, initialized,
          calls, result, pending, output_data, stdout, stderr, exit_code,
          available, agent, error>>

NoArgs ==
    [query_command |-> "", name |-> NoStr, path |-> NoStr, language |-> NoStr,
     limit |-> NoInt, format |-> "text", server_command |-> NoStr]

\* no run: the state of the run variables while only the normalizer acts
RunIdle ==
    /\ client = "none"
    /\ args = NoArgs
    /\ pc = "idle"
    /\ channel = "unopened"
    /\ session = "unopened"
    /\ initialized = FALSE
    /\ calls = <<>>
    /\ result = NoResult
    /\ pending = "none"
    /\ output_data = <<>>
    /\ stdout = <<>>
    /\ stderr = <<>>
    /\ exit_code = 0
    /\ available = FALSE
    /\ agent = "none"
    /\ error = <<>>

\* no record: the state of the normalizer variables during a run
NormalizeIdle ==
    /\ raw = EmptyDict
    /\ item = EmptyDict
    /\ prev = EmptyDict
    /\ applied = 0

(***************************************************************************)
(* The normalizer applied to one record, repeatedly.                       *)
(***************************************************************************)
InitNormalize ==
    /\ raw \in RawRecords
    /\ item = raw
    /\ prev = raw
    /\ applied = 0
    /\ RunIdle

Normalize ==
    /\ pc = "idle"
    /\ applied < MaxApply
    /\ item' = transform_symbol_result(item)
    /\ prev' = item
    /\ applied' = applied + 1
    /\ UNCHANGED <<raw, rvars, wvars>>

NextNormalize == Normalize

SpecNormalize == InitNormalize /\ [][NextNormalize]_vars

(***************************************************************************)
(* A run of serena_cli (main_async), of client.py (run_query) or of the     *)
(* native wrapper (serena_native.cli.main).                                *)
(***************************************************************************)
Init ==
    /\ NormalizeIdle
    /\ \/ client = "serena_cli" /\ args \in MainArgs /\ available = FALSE
       \/ client = "client" /\ args \in ClientArgs /\ available = FALSE
       \/ client = "native" /\ args \in NativeArgs /\ available \in BOOLEAN
    /\ agent = "none"
    /\ error = <<>>
    /\ pc = "start"
    /\ channel = "unopened"
    /\ session = "unopened"
    /\ initialized = FALSE
    /\ calls = <<>>
    /\ result = NoResult
    /\ pending = "none"
    /\ output_data = <<>>
    /\ stdout = <<>>
    /\ stderr = <<>>
    /\ exit_code = 0

\* an exception leaves the try block of main_async through the context
\* managers that were entered
Raise(kind, to) ==
    /\ pending' = kind
    /\ pc' = to

\* shutil.which(cmd): the server executable is found or the process exits
main_check_executable ==
    /\ client = "serena_cli" /\ pc = "start"
    /\ \E found \in BOOLEAN :
        IF found
        THEN /\ pc' = "open_channel"
             /\ UNCHANGED <<stderr, exit_code>>
        ELSE /\ stderr' = Append(stderr, ErrOut("error", <<"E", "r", "r", "o", "r", ":", " ", "C", "o", "m", "m", "a", "n", "d", " ", "n", "o", "t", " ", "f", "o", "u", "n", "d">>))
             /\ exit_code' = 1
             /\ pc' = "done"
    /\ UNCHANGED <<nvars, wvars, client, args, channel, session, initialized, calls, result,
                   pending, output_data, stdout>>

\* async with stdio_client(server_params): entered, or it raises
main_open_channel ==
    /\ client = "serena_cli" /\ pc = "open_channel"
    /\ \E ok \in BOOLEAN :
        IF ok
        THEN channel' = "open" /\ pc' = "open_session" /\ UNCHANGED pending
        ELSE Raise("exception", "except") /\ UNCHANGED channel
    /\ UNCHANGED <<nvars, wvars, client, args, session, initialized, calls, result,
                   output_data, stdout, stderr, exit_code>>

\* async with ClientSession(read, write): entered, or it raises
main_open_session ==
    /\ client = "serena_cli" /\ pc = "open_session"
    /\ \E ok \in BOOLEAN :
        IF ok
        THEN session' = "open" /\ pc' = "initialize" /\ UNCHANGED pending
        ELSE Raise("exception", "close_channel") /\ UNCHANGED session
    /\ UNCHANGED <<nvars, wvars, client, args, channel, initialized, calls, result,
                   output_data, stdout, stderr, exit_code>>

\* await session.initialize()
main_initialize ==
    /\ client = "serena_cli" /\ pc = "initialize"
    /\ \E ok \in BOOLEAN :
        IF ok
        THEN initialized' = TRUE /\ pc' = "call" /\ UNCHANGED pending
        ELSE Raise("exception", "close_session") /\ UNCHANGED initialized
    /\ UNCHANGED <<nvars, wvars, client, args, channel, session, calls, result,
                   output_data, stdout, stderr, exit_code>>

\* the dispatch on the subcommand and await session.call_tool(...): the
\* request is issued; a result comes back or the call raises
main_call_tool ==
    /\ client = "serena_cli" /\ pc = "call"
    /\ calls' = Append(calls, [tool_name |-> main_tool_name(args),
                               arguments |-> main_tool_args(args)])
    /\ \/ \E r \in Results : result' = r /\ pc' = "handle" /\ UNCHANGED pending
       \/ Raise("exception", "close_session") /\ UNCHANGED result
    /\ UNCHANGED <<nvars, wvars, client, args, channel, session, initialized,
                   output_data, stdout, stderr, exit_code>>

\* everything main_async does with the result: the error exit, parsing,
\* normalization, language filter, limit and output
main_handle_result ==
    /\ client = "serena_cli" /\ pc = "handle"
    /\ IF result.isError
       THEN /\ stderr' = stderr
                    \o <<ErrOut("error", <<"E", "r", "r", "o", "r", " ", "c", "a", "l", "l", "i", "n", "g", " ", "t", "o", "o", "l", ":">>)>>
                    \o main_error_lines(result.content)
            /\ Raise("exit", "close_session")
            /\ UNCHANGED <<output_data, stdout>>
       ELSE LET parsed == main_parse(result.content)
                warnings == main_warnings(result.content)
            IN IF \E i \in DOMAIN parsed : ~IsDictItem(parsed[i])
               THEN \* transform_symbol_result raises on an element that is no dict;
                    \* the elements before it were normalized in place
                    LET bad == CHOOSE i \in DOMAIN parsed :
                                    ~IsDictItem(parsed[i])
                                    /\ \A j \in 1..(i-1) : IsDictItem(parsed[j])
                    IN output_data' = [i \in DOMAIN parsed |->
                                         IF i < bad THEN transform_symbol_result(parsed[i])
                                         ELSE parsed[i]]
                    /\ stderr' = stderr \o warnings
                    /\ Raise("exception", "close_session")
                    /\ UNCHANGED stdout
               ELSE LET transformed ==
                            [i \in DOMAIN parsed |-> transform_symbol_result(parsed[i])]
                        final == main_select(args, transformed)
                        printed == main_output(args, final)
                    IN /\ output_data' = final
                       /\ stderr' = stderr \o warnings
                       /\ stdout' = stdout \o printed.out
                       /\ IF printed.raised
                          THEN Raise("exception", "close_session")
                          ELSE pc' = "close_session" /\ UNCHANGED pending
    /\ UNCHANGED <<nvars, wvars, client, args, channel, session, initialized, calls, result,
                   exit_code>>

\* __aexit__ of the ClientSession
main_close_session ==
    /\ client = "serena_cli" /\ pc = "close_session"
    /\ session' = "closed"
    /\ pc' = "close_channel"
    /\ UNCHANGED <<nvars, wvars, client, args, channel, initialized, calls, result, pending,
                   output_data, stdout, stderr, exit_code>>

\* __aexit__ of stdio_client; then the run ends, the SystemExit leaves
\* main_async, or the exception reaches the except clause
main_close_channel ==
    /\ client = "serena_cli" /\ pc = "close_channel"
    /\ channel' = "closed"
    /\ IF pending = "exception" THEN pc' = "except" /\ UNCHANGED exit_code
       ELSE /\ pc' = "done"
            /\ exit_code' = IF pending = "exit" THEN 1 ELSE 0
    /\ UNCHANGED <<nvars, wvars, client, args, session, initialized, calls, result, pending,
                   output_data, stdout, stderr>>

\* except Exception as e: print the error, sys.exit(1)
main_except ==
    /\ client = "serena_cli" /\ pc = "except"
    /\ stderr' = Append(stderr, ErrOut("error", <<"E", "r", "r", "o", "r", ":", " ">>))
    /\ exit_code' = 1
    /\ pc' = "done"
    /\ UNCHANGED <<nvars, wvars, client, args, channel, session, initialized, calls, result,
                   pending, output_data, stdout>>

\* exit_stack.enter_async_context(stdio_client(...) or sse_client(...))
run_open_channel ==
    /\ client = "client" /\ pc = "start"
    /\ \E ok \in BOOLEAN :
        IF ok
        THEN channel' = "open" /\ pc' = "open_session" /\ UNCHANGED pending
        ELSE Raise("exception", "except") /\ UNCHANGED channel
    /\ UNCHANGED <<nvars, wvars, client, args, session, initialized, calls, result,
                   output_data, stdout, stderr, exit_code>>

\* exit_stack.enter_async_context(ClientSession(read_stream, write_stream))
run_open_session ==
    /\ client = "client" /\ pc = "open_session"
    /\ \E ok \in BOOLEAN :
        IF ok
        THEN session' = "open" /\ pc' = "initialize" /\ UNCHANGED pending
        ELSE Raise("exception", "except") /\ UNCHANGED session
    /\ UNCHANGED <<nvars, wvars, client, args, channel, initialized, calls, result,
                   output_data, stdout, stderr, exit_code>>

\* await session.initialize()
run_initialize ==
    /\ client = "client" /\ pc = "initialize"
    /\ \E ok \in BOOLEAN :
        IF ok
        THEN initialized' = TRUE /\ pc' = "call" /\ UNCHANGED pending
        ELSE Raise("exception", "except") /\ UNCHANGED initialized
    /\ UNCHANGED <<nvars, wvars, client, args, channel, session, calls, result,
                   output_data, stdout, stderr, exit_code>>

\* the dispatch on the subcommand: one call_tool, or the return for a
\* subcommand that is none of the three
run_call_tool ==
    /\ client = "client" /\ pc = "call"
    /\ IF args.query_command \in {"find-symbol", "file-overview", "references"}
       THEN /\ calls' = Append(calls, [tool_name |-> run_tool_name(args),
                                       arguments |-> run_tool_args(args)])
            /\ \/ \E r \in Results : result' = r /\ pc' = "handle" /\ UNCHANGED pending
               \/ Raise("exception", "except") /\ UNCHANGED result
            /\ UNCHANGED stderr
       ELSE /\ stderr' = Append(stderr, ErrOut("error", <<"U", "n", "k", "n", "o", "w", "n", " ", "s", "u", "b", "c", "o", "m", "m", "a", "n", "d", ":", " ">>))
            /\ pc' = "aclose"
            /\ UNCHANGED <<calls, result, pending>>
    /\ UNCHANGED <<nvars, wvars, client, args, channel, session, initialized,
                   output_data, stdout, exit_code>>

\* everything run_query does with the result: parsing, limit and output
run_handle_result ==
    /\ client = "client" /\ pc = "handle"
    /\ LET final == run_limit(args, run_parse(result.content))
           printed == run_output(args, final)
       IN /\ output_data' = final
          /\ stdout' = stdout \o printed.out
          /\ IF printed.raised
             THEN Raise("exception", "except")
             ELSE pc' = "aclose" /\ UNCHANGED pending
    /\ UNCHANGED <<nvars, wvars, client, args, channel, session, initialized, calls, result,
                   stderr, exit_code>>

\* except Exception as e: print the error and the traceback
run_except ==
    /\ client = "client" /\ pc = "except"
    /\ stderr' = Append(stderr, ErrOut("error", <<"E", "r", "r", "o", "r", ":", " ">>))
    /\ pc' = "aclose"
    /\ UNCHANGED <<nvars, wvars, client, args, channel, session, initialized, calls, result,
                   pending, output_data, stdout, exit_code>>

\* run_aclose closing the contexts only when nothing was raised (aclose at
\* the end of the try block instead of in finally)
run_aclose_no_finally ==
    /\ client = "client" /\ pc = "aclose"
    /\ session' = IF session = "open" /\ pending = "none" THEN "closed" ELSE session
    /\ channel' = IF channel = "open" /\ pending = "none" THEN "closed" ELSE channel
    /\ pc' = "done"
    /\ exit_code' = 0
    /\ UNCHANGED <<nvars, wvars, client, args, initialized, calls, result, pending,
                   output_data, stdout, stderr>>

\* finally: exit_stack.aclose() leaves the session and then the transport,
\* each if it was entered; run_query returns and main ends with exit code 0
run_aclose ==
    /\ client = "client" /\ pc = "aclose"
    /\ session' = IF session = "open" THEN "closed" ELSE session
    /\ channel' = IF channel = "open" THEN "closed" ELSE channel
    /\ pc' = "done"
    /\ exit_code' = 0
    /\ UNCHANGED <<nvars, wvars, client, args, initialized, calls, result, pending,
                   output_data, stdout, stderr>>

(***************************************************************************)
(* A run of the native wrapper.                                            *)
(***************************************************************************)
\* an exception with message msg is raised inside the try block of cli.main
NativeRaise(msg) ==
    /\ error' = msg
    /\ pending' = "exception"
    /\ pc' = "except"

\* cli.main up to the try block: without a command the usage is printed and
\* the process exits with 1; else the configuration is read and the
\* SerenaClient is constructed, which logs when serena is not installed
native_start ==
    /\ client = "native" /\ pc = "start"
    /\ IF args.command = ""
       THEN /\ stdout' = Append(stdout, HelpOut)
            /\ exit_code' = 1
            /\ pc' = "done"
            /\ UNCHANGED stderr
       ELSE /\ stderr' = IF available THEN stderr
                         ELSE Append(stderr, ErrOut("error",
                                <<"E", "R", "R", "O", "R", ":", " ", "S", "e", "r", "e", "n", "a", " ", "i", "s", " ", "n", "o", "t", " ", "i", "n", "s", "t", "a", "l", "l", "e", "d", " ", "o", "r", " ", "n", "o", "t", " ", "f", "o", "u", "n", "d", " ", "i", "n", " ", "p", "y", "t", "h", "o", "n", " ", "p", "a", "t", "h", ".">>))
            /\ pc' = "dispatch"
            /\ UNCHANGED <<stdout, exit_code>>
    /\ UNCHANGED <<nvars, client, args, channel, session, initialized, calls, result,
                   pending, output_data, available, agent, error>>

\* the dispatch on the query subcommand and ensure_agent() of the method it
\* calls: without a subcommand the usage is printed and SystemExit(1) leaves
\* main; else the agent is created, or RuntimeError is raised
native_ensure_agent ==
    /\ client = "native" /\ pc = "dispatch"
    /\ IF args.subcommand = ""
       THEN /\ stdout' = Append(stdout, HelpOut)
            /\ exit_code' = 1
            /\ pc' = "done"
            /\ UNCHANGED <<agent, error, pending>>
       ELSE /\ UNCHANGED <<stdout, exit_code>>
            /\ IF ~available
               THEN NativeRaise(<<"S", "e", "r", "e", "n", "a", " ", "i", "s", " ", "n", "o", "t", " ", "a", "v", "a", "i", "l", "a", "b", "l", "e", ".">>) /\ UNCHANGED agent
               ELSE \E ok \in BOOLEAN :
                        IF ok
                        THEN agent' = "created" /\ pc' = "activate"
                             /\ UNCHANGED <<error, pending>>
                        ELSE NativeRaise(<<"F", "a", "i", "l", "e", "d", " ", "t", "o", " ", "i", "n", "i", "t", "i", "a", "l", "i", "z", "e", " ", "S", "e", "r", "e", "n", "a", " ", "a", "g", "e", "n", "t", ":", " ", "i", "n", "i", "t", " ", "f", "a", "i", "l", "e", "d">>)
                             /\ UNCHANGED agent
    /\ UNCHANGED <<nvars, client, args, channel, session, initialized, calls, result,
                   output_data, stderr, available>>

\* self.agent.activate_project_from_path_or_name(self.project_root)
native_activate ==
    /\ client = "native" /\ pc = "activate"
    /\ calls' = Append(calls, [tool_name |-> "activate_project_from_path_or_name",
                               arguments |-> [project |-> native_project_root(args)]])
    /\ \E ok \in BOOLEAN :
        IF ok THEN pc' = "apply" /\ UNCHANGED <<error, pending>>
        ELSE NativeRaise(<<"a", "c", "t", "i", "v", "a", "t", "i", "o", "n", " ", "f", "a", "i", "l", "e", "d">>)
    /\ UNCHANGED <<nvars, client, args, channel, session, initialized, result,
                   output_data, stdout, stderr, exit_code, available, agent>>

\* get_tool and what follows it.  find_symbol applies the tool, which returns
\* a string or raises.  file_overview and find_references first evaluate
\* os.path.relpath, and serena_client.py does not import os: NameError is
\* raised and the tool is not applied
native_apply ==
    /\ client = "native" /\ pc = "apply"
    /\ IF args.subcommand = "find-symbol"
       THEN /\ calls' = Append(calls, [tool_name |-> "find_symbol",
                                       arguments |-> [name_path_pattern |-> args.name.v]])
            /\ \/ \E reply \in NativeReplies :
                    /\ result' = [isError |-> FALSE, content |-> <<reply>>]
                    /\ pc' = "output"
                    /\ UNCHANGED <<error, pending>>
               \/ NativeRaise(<<"t", "o", "o", "l", " ", "f", "a", "i", "l", "e", "d">>) /\ UNCHANGED result
       ELSE /\ NativeRaise(<<"n", "a", "m", "e", " ", "'", "o", "s", "'", " ", "i", "s", " ", "n", "o", "t", " ", "d", "e", "f", "i", "n", "e", "d">>)
            /\ UNCHANGED <<calls, result>>
    /\ UNCHANGED <<nvars, client, args, channel, session, initialized,
                   output_data, stdout, stderr, exit_code, available, agent>>

\* json.loads of the reply, and the output handling of cli.main; main then
\* returns and the process exits with 0
native_handle_result ==
    /\ client = "native" /\ pc = "output"
    /\ LET data == native_loads(result.content[1])
           printed == native_output(args, data)
       IN /\ output_data' = data
          /\ stdout' = stdout \o printed.out
          /\ IF printed.raised
             THEN NativeRaise(<<"a", "r", "g", "u", "m", "e", "n", "t", " ", "o", "f", " ", "t", "y", "p", "e", " ", "'", "i", "n", "t", "'", " ", "i", "s", " ", "n", "o", "t", " ", "i", "t", "e", "r", "a", "b", "l", "e">>)
                  /\ UNCHANGED exit_code
             ELSE pc' = "done" /\ exit_code' = 0 /\ UNCHANGED <<error, pending>>
    /\ UNCHANGED <<nvars, client, args, channel, session, initialized, calls, result,
                   stderr, available, agent>>

\* except Exception as e: the error as JSON on the output stream or as a log
\* line on the error stream, then sys.exit(1)
native_except ==
    /\ client = "native" /\ pc = "except"
    /\ IF args.format = "json"
       THEN stdout' = Append(stdout, ErrorJsonOut(error)) /\ UNCHANGED stderr
       ELSE stderr' = Append(stderr, ErrOut("error", <<"E", "R", "R", "O", "R", ":", " ">> \o error))
            /\ UNCHANGED stdout
    /\ exit_code' = 1
    /\ pc' = "done"
    /\ UNCHANGED <<nvars, client, args, channel, session, initialized, calls, result,
                   pending, output_data, available, agent, error>>

Next ==
    \/ main_check_executable
    \/ main_open_channel
    \/ main_open_session
    \/ main_initialize
    \/ main_call_tool
    \/ main_handle_result
    \/ main_close_session
    \/ main_close_channel
    \/ main_except
    \/ run_open_channel
    \/ run_open_session
    \/ run_initialize
    \/ run_call_tool
    \/ run_handle_result
    \/ run_except
    \/ run_aclose
    \/ native_start
    \/ native_ensure_agent
    \/ native_activate
    \/ native_apply
    \/ native_handle_result
    \/ native_except

Spec == Init /\ [][Next]_vars

(***************************************************************************)
(* Properties of the dispatch (specification Spec).                        *)
(***************************************************************************)
\* the run has gone through the dispatch of main_async
Dispatched == initialized /\ pc # "call"

\* C1: a serena_cli run that has reached the dispatch has issued exactly one
\* call_tool, none before session.initialize completed, and the request is
\* find_symbol {name_path_pattern: name}, get_symbols_overview
\* {relative_path: path} or find_referencing_symbols {name_path: name,
\* relative_path: path}, whatever --language, --limit and --format are.
C1_OneToolCall ==
    client = "serena_cli" =>
        IF Dispatched
        THEN /\ Len(calls) = 1
             /\ args.query_command = "find-symbol" =>
                    calls[1] = [tool_name |-> "find_symbol",
                                arguments |-> [name_path_pattern |-> args.name.v]]
             /\ args.query_command = "file-overview" =>
                    calls[1] = [tool_name |-> "get_symbols_overview",
                                arguments |-> [relative_path |-> args.path.v]]
             /\ args.query_command = "references" =>
                    calls[1] = [tool_name |-> "find_referencing_symbols",
                                arguments |-> [name_path |-> args.name.v,
                                               relative_path |-> args.path.v]]
        ELSE calls = <<>>

C1_Witness ==
    /\ client = "serena_cli" /\ pc = "done" /\ exit_code = 0
    /\ args.query_command = "find-symbol"
    /\ args.language.present /\ args.limit.present /\ args.format = "json"
    /\ Len(calls) = 1
    /\ output_data # <<>>

(***************************************************************************)
(* Properties of the normalizer (specification SpecNormalize).             *)
(***************************************************************************)
\* the raw range has both range.start.line and range.end.line
HasRangeLines(r) ==
    /\ Has(r, "range") /\ r["range"].isDict
    /\ Has(r["range"].d, "start") /\ Has(r["range"].d["start"], "line")
    /\ Has(r["range"].d, "end") /\ Has(r["range"].d["end"], "line")

RangeFromLines(r) ==
    DictVal([start_line |-> r["range"].d["start"]["line"],
             end_line |-> r["range"].d["end"]["line"]])

\* the field k is in b exactly as it is in a
SameField(a, b, k) == (Has(a, k) <=> Has(b, k)) /\ (Has(a, k) => a[k] = b[k])

\* C2 as claimed: range lines first, else body_location whenever it exists
\* as a mapping (also when range is present without its lines), else the
\* range as it was.
C2_RangePriorityAsClaimed ==
    applied = 1 =>
        IF HasRangeLines(raw) THEN Has(item, "range") /\ item["range"] = RangeFromLines(raw)
        ELSE IF Has(raw, "body_location") /\ raw["body_location"].isDict
        THEN Has(item, "range") /\ item["range"] = raw["body_location"]
        ELSE SameField(raw, item, "range")

\* C2 as amended: range lines first; else, when range is absent or is no
\* mapping and body_location is a mapping, the range is body_location; else
\* the range is left as it was, so a range mapping without start.line or
\* end.line stays even when body_location exists.
C2_RangePriority ==
    applied = 1 =>
        IF HasRangeLines(raw) THEN Has(item, "range") /\ item["range"] = RangeFromLines(raw)
        ELSE IF /\ ~(Has(raw, "range") /\ raw["range"].isDict)
                /\ Has(raw, "body_location") /\ raw["body_location"].isDict
        THEN Has(item, "range") /\ item["range"] = raw["body_location"]
        ELSE SameField(raw, item, "range")

C2_Witness ==
    /\ applied = 1
    /\ Has(raw, "range") /\ raw["range"].isDict /\ ~HasRangeLines(raw)
    /\ Has(raw, "body_location") /\ raw["body_location"].isDict
    /\ item["range"] = raw["range"]
    /\ item["range"] # raw["body_location"]

\* C3: normalizing a normalized record changes nothing.
C3_Idempotent == applied >= 2 => item = prev

C3_Witness ==
    /\ applied = 2
    /\ prev # raw
    /\ HasRangeLines(raw) /\ Has(raw, "body_location")
    /\ item = prev

\* seg is the last '/'-separated segment of p
IsLastSegment(p, seg) ==
    \E k \in 0..Len(p) :
        /\ k = 0 \/ p[k] = "/"
        /\ \A j \in (k+1)..Len(p) : p[j] # "/"
        /\ seg = SubSeq(p, k+1, Len(p))

\* seg is base followed by '[', one or more digits, ']'
HasIndexSuffix(seg, base) ==
    \E i \in DOMAIN seg :
        /\ seg[i] = "["
        /\ i + 1 < Len(seg)
        /\ \A j \in (i+1)..(Len(seg)-1) : seg[j] \in {"0","1","2","3","4","5","6","7","8","9"}
        /\ seg[Len(seg)] = "]"
        /\ base = SubSeq(seg, 1, i-1)

\* C4: for a record with name_path and no name, name is the last
\* '/'-separated segment of name_path without its trailing '[digits]', and
\* a segment without such a suffix unchanged.
C4_NameFromPath ==
    (applied = 1 /\ ~Has(raw, "name") /\ Has(raw, "name_path")) =>
        /\ Has(item, "name")
        /\ \E k \in 0..Len(raw["name_path"]) :
            LET seg == SubSeq(raw["name_path"], k+1, Len(raw["name_path"]))
            IN /\ IsLastSegment(raw["name_path"], seg)
               /\ IF \E i \in 0..Len(seg) : HasIndexSuffix(seg, SubSeq(seg, 1, i))
                  THEN HasIndexSuffix(seg, item["name"])
                  ELSE item["name"] = seg

C4_Witness ==
    /\ applied = 1 /\ ~Has(raw, "name")
    /\ Has(raw, "name_path") /\ raw["name_path"] = <<"M", "y", "C", "l", "a", "s", "s", "/", "m", "y", "_", "m", "e", "t", "h", "o", "d", "[", "0", "]">>
    /\ item["name"] = <<"m", "y", "_", "m", "e", "t", "h", "o", "d">>

\* the lower-cased names of the 26 symbol kinds
LowerKindNames == <<
    <<"f", "i", "l", "e">>, <<"m", "o", "d", "u", "l", "e">>, <<"n", "a", "m", "e", "s", "p", "a", "c", "e">>, <<"p", "a", "c", "k", "a", "g", "e">>, <<"c", "l", "a", "s", "s">>,
    <<"m", "e", "t", "h", "o", "d">>, <<"p", "r", "o", "p", "e", "r", "t", "y">>, <<"f", "i", "e", "l", "d">>, <<"c", "o", "n", "s", "t", "r", "u", "c", "t", "o", "r">>, <<"e", "n", "u", "m">>,
    <<"i", "n", "t", "e", "r", "f", "a", "c", "e">>, <<"f", "u", "n", "c", "t", "i", "o", "n">>, <<"v", "a", "r", "i", "a", "b", "l", "e">>, <<"c", "o", "n", "s", "t", "a", "n", "t">>, <<"s", "t", "r", "i", "n", "g">>,
    <<"n", "u", "m", "b", "e", "r">>, <<"b", "o", "o", "l", "e", "a", "n">>, <<"a", "r", "r", "a", "y">>, <<"o", "b", "j", "e", "c", "t">>, <<"k", "e", "y">>,
    <<"n", "u", "l", "l">>, <<"e", "n", "u", "m", "m", "e", "m", "b", "e", "r">>, <<"s", "t", "r", "u", "c", "t">>, <<"e", "v", "e", "n", "t">>, <<"o", "p", "e", "r", "a", "t", "o", "r">>,
    <<"t", "y", "p", "e", "p", "a", "r", "a", "m", "e", "t", "e", "r">> >>

\* the number a string of digits denotes
RECURSIVE DecimalValue(_)
DecimalValue(s) ==
    IF s = <<>> THEN 0
    ELSE 10 * DecimalValue(SubSeq(s, 1, Len(s) - 1))
            + ((CHOOSE i \in DOMAIN DigitChars : DigitChars[i] = s[Len(s)]) - 1)

IsCanonicalNat(s) ==
    /\ s # <<>>
    /\ \A i \in DOMAIN s : IsDigit(s[i])
    /\ Len(s) > 1 => s[1] # "0"

\* s is the decimal string of the integer n
IsDecimalOf(s, n) ==
    IF n < 0
    THEN Len(s) >= 2 /\ s[1] = "-" /\ IsCanonicalNat(Tail(s)) /\ DecimalValue(Tail(s)) = 0 - n
    ELSE IsCanonicalNat(s) /\ DecimalValue(s) = n

\* C5: an integer kind in 1..26 becomes the lower-cased name of its table
\* entry, any other integer kind its decimal string, and a string kind is
\* left unchanged.
C5_KindName ==
    (applied = 1 /\ Has(raw, "kind")) =>
        /\ Has(item, "kind") /\ ~item["kind"].isInt
        /\ IF raw["kind"].isInt
           THEN IF raw["kind"].n \in 1..26
                THEN item["kind"].s = LowerKindNames[raw["kind"].n]
                ELSE IsDecimalOf(item["kind"].s, raw["kind"].n)
           ELSE item["kind"] = raw["kind"]

C5_Witness ==
    /\ applied = 1
    /\ Has(raw, "kind") /\ raw["kind"] = IntKind(26)
    /\ item["kind"] = StrKind(<<"t", "y", "p", "e", "p", "a", "r", "a", "m", "e", "t", "e", "r">>)

\* f has the extension e: f ends with e and the last path component has a
\* character other than '.' before it (e is '.' and letters)
HasExtension(f, e) ==
    /\ Len(f) > Len(e)
    /\ SubSeq(f, Len(f) - Len(e) + 1, Len(f)) = e
    /\ \E k \in 1..(Len(f) - Len(e)) :
        /\ f[k] \notin {".", "/"}
        /\ \A j \in k..(Len(f) - Len(e)) : f[j] # "/"

\* C6: relative_path is copied to file; then a record without language and
\* with a file gets the language of the extension of file (.py, .ts, .js,
\* .java), none for any other extension; a declared language is kept.
C6_FileAndLanguage ==
    applied = 1 =>
        /\ IF Has(raw, "relative_path")
           THEN Has(item, "file") /\ item["file"] = raw["relative_path"]
           ELSE SameField(raw, item, "file")
        /\ IF Has(raw, "language") THEN Has(item, "language") /\ item["language"] = raw["language"]
           ELSE IF ~Has(item, "file") THEN ~Has(item, "language")
           ELSE IF HasExtension(item["file"], <<".", "p", "y">>)
                THEN Has(item, "language") /\ item["language"] = <<"p", "y", "t", "h", "o", "n">>
           ELSE IF HasExtension(item["file"], <<".", "t", "s">>)
                THEN Has(item, "language") /\ item["language"] = <<"t", "y", "p", "e", "s", "c", "r", "i", "p", "t">>
           ELSE IF HasExtension(item["file"], <<".", "j", "s">>)
                THEN Has(item, "language") /\ item["language"] = <<"j", "a", "v", "a", "s", "c", "r", "i", "p", "t">>
           ELSE IF HasExtension(item["file"], <<".", "j", "a", "v", "a">>)
                THEN Has(item, "language") /\ item["language"] = <<"j", "a", "v", "a">>
           ELSE ~Has(item, "language")

C6_Witness ==
    /\ applied = 1
    /\ Has(raw, "relative_path") /\ raw["relative_path"] = <<"s", "r", "c", "/", "f", "o", "o", ".", "p", "y">>
    /\ Has(raw, "file") /\ raw["file"] # raw["relative_path"]
    /\ ~Has(raw, "language")
    /\ item["file"] = <<"s", "r", "c", "/", "f", "o", "o", ".", "p", "y">> /\ item["language"] = <<"p", "y", "t", "h", "o", "n">>

\* C8: the normalizer removes no field, and every field other than name,
\* kind, range, file and language keeps its value.
C8_FieldsKept ==
    applied >= 1 =>
        /\ DOMAIN raw \subseteq DOMAIN item
        /\ \A k \in (DOMAIN raw) \ {"name", "kind", "range", "file", "language"} :
            item[k] = raw[k]

C8_Witness ==
    /\ applied = 1
    /\ {"name_path", "body_location", "relative_path", "content_around_reference",
        "detail"} \subseteq DOMAIN raw
    /\ DOMAIN item # DOMAIN raw
    /\ item["body_location"] = raw["body_location"]

\* C9 as claimed: a normalized record always has a kind, 'unknown' when the
\* raw record had none, and has a name when the raw record has name or
\* name_path.
C9_KindAndNamePresentAsClaimed ==
    applied = 1 =>
        /\ Has(item, "kind")
        /\ ~Has(raw, "kind") => item["kind"] = StrKind(<<"u", "n", "k", "n", "o", "w", "n">>)
        /\ (Has(raw, "name") \/ Has(raw, "name_path")) => Has(item, "name")

\* C9 as amended: a normalized record has a kind exactly when the raw record
\* has one (the normalizer adds no kind), and has a name when the raw record
\* has name or name_path.
C9_KindAndNamePresent ==
    applied = 1 =>
        /\ Has(item, "kind") <=> Has(raw, "kind")
        /\ (Has(raw, "name") \/ Has(raw, "name_path")) => Has(item, "name")

C9_Witness ==
    /\ applied = 1
    /\ ~Has(raw, "kind") /\ ~Has(item, "kind")
    /\ ~Has(raw, "name") /\ Has(raw, "name_path") /\ Has(item, "name")

(***************************************************************************)
(* Properties of the output pipeline and of the channel (Spec).            *)
(***************************************************************************)
\* a and b are equal up to the case of their letters
SameLetter(c, d) ==
    \/ c = d
    \/ \E i \in 1..26 : {c, d} = {UpperChars[i], LowerChars[i]}

EqualIgnoringCase(a, b) ==
    Len(a) = Len(b) /\ \A i \in DOMAIN a : SameLetter(a[i], b[i])

\* the normalized records of the result, in the order of the response
NormalizedRecords ==
    LET parsed == main_parse(result.content)
    IN [i \in DOMAIN parsed |-> transform_symbol_result(parsed[i])]

\* the records whose language is L up to case, in their order
MatchingLanguage(records, L) ==
    LET Matches(it) == Has(it, "language") /\ EqualIgnoringCase(it["language"], L)
    IN SelectSeq(records, Matches)

\* a serena_cli find-symbol run with --language and without --limit that
\* ended successfully
FilteredRun ==
    /\ client = "serena_cli" /\ pc = "done" /\ exit_code = 0
    /\ args.query_command = "find-symbol"
    /\ args.language.present /\ ~args.limit.present

\* C7 as claimed: with --language L the output is exactly the normalized
\* records whose language equals L up to case, in order, for every L.
C7_LanguageFilterAsClaimed ==
    FilteredRun =>
        /\ output_data = MatchingLanguage(NormalizedRecords, args.language.v)
        /\ args.format = "json" => stdout = <<JsonOut(output_data)>>

\* C7 as amended: with a non-empty --language L the output is exactly the
\* normalized records whose language equals L up to case, in order; with an
\* empty L no filter is applied and every normalized record is output.
C7_LanguageFilter ==
    FilteredRun =>
        /\ output_data =
                IF args.language.v # <<>>
                THEN MatchingLanguage(NormalizedRecords, args.language.v)
                ELSE NormalizedRecords
        /\ args.format = "json" => stdout = <<JsonOut(output_data)>>

C7_Witness ==
    /\ FilteredRun
    /\ args.language.v = <<"T", "y", "p", "e", "S", "c", "r", "i", "p", "t">>
    /\ Len(NormalizedRecords) = 2
    /\ Get(NormalizedRecords[1], "language", <<>>) = <<"p", "y", "t", "h", "o", "n">>
    /\ output_data = <<NormalizedRecords[2]>>
    /\ Get(output_data[1], "language", <<>>) = <<"t", "y", "p", "e", "s", "c", "r", "i", "p", "t">>

\* C10: when a run of main_async or of run_query has ended, a channel that
\* was opened is closed, and so is a session that was entered.
C10_ChannelClosed ==
    pc = "done" => channel # "open" /\ session # "open"

C10_Witness ==
    /\ pc = "done"
    /\ channel = "closed" /\ session = "closed"
    /\ pending = "exception"
    /\ stdout # <<>>


(***************************************************************************)
(* C12.  Text blocks that are not JSON, in serena_cli.                     *)
(***************************************************************************)
\* main_async has taken the non-error result through lines 156-218
Handled ==
    /\ client = "serena_cli"
    /\ result # NoResult
    /\ ~result.isError
    /\ pc \in {"close_session", "close_channel", "except", "done"}

IsValidJsonBlock(b) == b.type = "text" /\ b.json \in {"list", "dict"}
IsInvalidTextBlock(b) == b.type = "text" /\ b.json = "invalid"

\* number of records the valid blocks before block b carry
RECURSIVE RecordsBefore(_, _)
RecordsBefore(content, b) ==
    IF b <= 1 THEN 0
    ELSE RecordsBefore(content, b - 1)
            + (IF IsValidJsonBlock(content[b - 1]) THEN Len(content[b - 1].items) ELSE 0)

\* the concatenation, in block order, of the data of the valid blocks, by
\* position: record j of valid block b stands at RecordsBefore(b) + j
BlockRecords(content) ==
    [k \in 1..RecordsBefore(content, Len(content) + 1) |->
        LET at == CHOOSE p \in {<<b, j>> \in (DOMAIN content) \X (1..MaxRecords + 1) :
                                    /\ IsValidJsonBlock(content[b])
                                    /\ j \in DOMAIN content[b].items} :
                        RecordsBefore(content, p[1]) + p[2] = k
        IN content[at[1]].items[at[2]]]

WarningsOf(err) == SelectSeq(err, LAMBDA e : e.tag = "warning")
InvalidBlocksOf(content) == SelectSeq(content, IsInvalidTextBlock)

\* C12: after main_async handled a non-error response, the error stream holds
\* one warning per text block that is not JSON, in block order and carrying
\* the block's text; the list that was normalized is the concatenation, in
\* block order, of the data of the valid blocks (the final list is the filter
\* and limit of its normalization); and the run raises only when a record is
\* no mapping or the text formatter raises, never because of an invalid block.
C12_InvalidBlocksSkipped ==
    Handled =>
        LET records == BlockRecords(result.content)
            bad == InvalidBlocksOf(result.content)
            warned == WarningsOf(stderr)
            allDicts == \A k \in DOMAIN records : IsDictItem(records[k])
        IN /\ Len(warned) = Len(bad)
           /\ \A i \in DOMAIN bad :
                warned[i].text = <<"W", "a", "r", "n", "i", "n", "g", ":", " ", "N", "o", "n", "-", "J", "S", "O", "N", " ", "r", "e", "s", "p", "o", "n", "s", "e", " ", "r", "e", "c", "e", "i", "v", "e", "d", ":", " ">> \o bad[i].text
           /\ allDicts =>
                output_data = main_limit(args, main_filter(args,
                                [k \in DOMAIN records |-> transform_symbol_result(records[k])]))
           /\ ~allDicts => Len(output_data) = Len(records)
           /\ pending = "exception" =>
                ~allDicts \/ main_output(args, output_data).raised

\* a finished run whose response had an invalid block before a valid one
C12_Witness ==
    /\ Handled
    /\ pc = "done"
    /\ exit_code = 0
    /\ Len(result.content) = 2
    /\ IsInvalidTextBlock(result.content[1])
    /\ IsValidJsonBlock(result.content[2])
    /\ output_data # <<>>
    /\ Len(WarningsOf(stderr)) = 1

(***************************************************************************)
(* C15.  The empty-result line of serena_cli in text mode.                 *)
(***************************************************************************)
StartsWith(s, prefix) ==
    Len(s) >= Len(prefix) /\ SubSeq(s, 1, Len(prefix)) = prefix

EmptyResultLines ==
    {<<"N", "o", " ", "s", "y", "m", "b", "o", "l", "s", " ", "f", "o", "u", "n", "d", ".">>, <<"N", "o", " ", "s", "y", "m", "b", "o", "l", "s", " ", "f", "o", "u", "n", "d", " ", "i", "n", " ", "f", "i", "l", "e", ".">>, <<"N", "o", " ", "r", "e", "f", "e", "r", "e", "n", "c", "e", "s", " ", "f", "o", "u", "n", "d", ".">>}

\* a text-mode run of serena_cli that is past the output of a non-error result
TextPrinted ==
    /\ client = "serena_cli"
    /\ args.format = "text"
    /\ calls # <<>>
    /\ ~result.isError
    /\ pc \in {"close_session", "close_channel", "except", "done"}

\* the record whose line or block the i-th printed entry opens or belongs to
RecordLines(cmd, out, n) ==
    IF cmd = "find-symbol"
    THEN /\ Len(out) = n
         /\ \A i \in 1..n : StartsWith(out[i].text, Get(output_data[i], "name", <<"?">>))
    ELSE IF cmd = "file-overview"
    THEN /\ Len(out) = n
         /\ \A i \in 1..n : StartsWith(out[i].text, Get(output_data[i], "kind", StrKind(<<"?">>)).s)
    ELSE LET heads == SelectSeq(out, LAMBDA o : StartsWith(o.text, <<"R", "e", "f", "e", "r", "e", "n", "c", "e", "d", " ", "i", "n", " ">>))
             codes == SelectSeq(out, LAMBDA o : StartsWith(o.text, <<" ", " ", "C", "o", "d", "e", ":">>))
         IN /\ Len(heads) = n
            /\ Len(heads) + Len(codes) = Len(out)
            /\ Len(codes) <= n
            /\ out # <<>> => StartsWith(out[1].text, <<"R", "e", "f", "e", "r", "e", "n", "c", "e", "d", " ", "i", "n", " ">>)

FirstN(s, n) == [i \in 1..Min(n, Len(s)) |-> s[i]]

\* a serena_cli find-symbol run with --language and --limit n, n >= 1, that
\* ended successfully
FilteredLimitedRun ==
    /\ client = "serena_cli" /\ pc = "done" /\ exit_code = 0
    /\ calls # <<>>
    /\ args.query_command = "find-symbol"
    /\ args.language.present
    /\ args.limit.present /\ args.limit.v >= 1

\* a serena_cli run of another subcommand that ended successfully
UnlimitedRun ==
    /\ client = "serena_cli" /\ pc = "done" /\ exit_code = 0
    /\ calls # <<>>
    /\ args.query_command \in {"file-overview", "references"}

\* C17 as claimed: with --language L and --limit n (n >= 1) the output is the
\* first min(n, m) of the m normalized records whose language matches L, in
\* server order, for every L; file-overview and references output every
\* normalized record.
C17_FilterBeforeLimitAsClaimed ==
    /\ FilteredLimitedRun =>
            output_data = FirstN(MatchingLanguage(NormalizedRecords, args.language.v),
                                 args.limit.v)
    /\ UnlimitedRun => output_data = NormalizedRecords

\* C17 as amended: with a non-empty --language L and --limit n (n >= 1) the
\* output is the first min(n, m) of the m normalized records whose language
\* matches L, in server order; with an empty L no filter is applied and the
\* output is the first min(n, k) of all k normalized records; file-overview
\* and references output every normalized record.
C17_FilterBeforeLimit ==
    /\ FilteredLimitedRun =>
            output_data =
                IF args.language.v # <<>>
                THEN FirstN(MatchingLanguage(NormalizedRecords, args.language.v),
                            args.limit.v)
                ELSE FirstN(NormalizedRecords, args.limit.v)
    /\ UnlimitedRun => output_data = NormalizedRecords

\* limit 1 over two records of which only the second matches: the output is
\* the second record, which limiting first would have dropped
C17_Witness ==
    /\ FilteredLimitedRun
    /\ args.language.v # <<>>
    /\ args.limit.v = 1
    /\ Len(NormalizedRecords) = 2
    /\ MatchingLanguage(NormalizedRecords, args.language.v) = <<NormalizedRecords[2]>>
    /\ output_data = <<NormalizedRecords[2]>>

(***************************************************************************)
(* C18.  A limit that is zero or negative.                                 *)
(***************************************************************************)
\* a find-symbol run with --limit, of either MCP client, that handled a
\* non-error response and was not aborted
LimitRun ==
    /\ client \in {"serena_cli", "client"}
    /\ pc = "done" /\ exit_code = 0 /\ pending = "none"
    /\ calls # <<>>
    /\ ~result.isError
    /\ args.query_command = "find-symbol"
    /\ args.limit.present

\* C18: a --limit n with n <= 0 removes no record from the find-symbol
\* result: serena_cli (without --language) outputs every normalized record
\* and client.py outputs every parsed record; and the limit of serena_cli and
\* the limit of client.py give the same list for the given n.
C18_NonPositiveLimitKeepsAll ==
    LimitRun =>
        /\ (args.limit.v <= 0 /\ client = "serena_cli" /\ ~args.language.present) =>
                output_data = NormalizedRecords
        /\ (args.limit.v <= 0 /\ client = "client") =>
                output_data = run_parse(result.content)
        /\ LET data == main_parse(result.content)
           IN main_limit(args, data) = run_limit(args, data)

(***************************************************************************)
(* C16.  file-overview and references of the native wrapper.               *)
(***************************************************************************)
\* os.path.relpath(p, root) for a relative p, which is taken from the
\* working directory, and a root that is the working directory or another
\* directory directly under /
RelativeTo(p, root) == IF root = Cwd THEN p ELSE <<".", ".">> \o Cwd \o <<"/">> \o p

\* a finished file-overview or references run of the native wrapper whose
\* agent was available and neither failed to activate the project nor to
\* apply the tool
NativePathQueryDone ==
    /\ client = "native" /\ pc = "done"
    /\ args.subcommand \in {"file-overview", "references"}
    /\ available /\ agent = "created"
    /\ error \notin {<<"a", "c", "t", "i", "v", "a", "t", "i", "o", "n", " ", "f", "a", "i", "l", "e", "d">>, <<"t", "o", "o", "l", " ", "f", "a", "i", "l", "e", "d">>}

\* C16: with an available agent, query file-overview --path p activates the
\* project and then applies get_symbols_overview exactly once with
\* relative_path = p relative to the project root; query references --name n
\* --path p likewise applies find_referencing_symbols once with name_path n
\* and that relative path; each then prints the records and exits with 0.
C16_NativePathQueries ==
    NativePathQueryDone =>
        LET root == native_project_root(args)
            rel == RelativeTo(args.path.v, root)
        IN /\ Len(calls) = 2
           /\ calls[1] = [tool_name |-> "activate_project_from_path_or_name",
                          arguments |-> [project |-> root]]
           /\ calls[2] =
                IF args.subcommand = "file-overview"
                THEN [tool_name |-> "get_symbols_overview",
                      arguments |-> [relative_path |-> rel]]
                ELSE [tool_name |-> "find_referencing_symbols",
                      arguments |-> [name_path |-> args.name.v, relative_path |-> rel]]
           /\ exit_code = 0
           /\ stdout # <<>> \/ output_data = <<>>
           /\ stderr = <<>>

(***************************************************************************)
(* C11.  Exit codes of the three clients.                                  *)
(***************************************************************************)
McpClients == {"serena_cli", "client"}

NativeTransportErrors ==
    {<<"S", "e", "r", "e", "n", "a", " ", "i", "s", " ", "n", "o", "t", " ", "a", "v", "a", "i", "l", "a", "b", "l", "e", ".">>, <<"F", "a", "i", "l", "e", "d", " ", "t", "o", " ", "i", "n", "i", "t", "i", "a", "l", "i", "z", "e", " ", "S", "e", "r", "e", "n", "a", " ", "a", "g", "e", "n", "t", ":", " ", "i", "n", "i", "t", " ", "f", "a", "i", "l", "e", "d">>,
     <<"a", "c", "t", "i", "v", "a", "t", "i", "o", "n", " ", "f", "a", "i", "l", "e", "d">>, <<"t", "o", "o", "l", " ", "f", "a", "i", "l", "e", "d">>}

\* the finished run's query completed: a tool was called, its response was
\* not flagged as an error, and nothing was raised
QuerySucceeded ==
    /\ pc = "done"
    /\ calls # <<>>
    /\ pending = "none"
    /\ ~result.isError

\* the finished run's transport failed (the server executable was not found;
\* opening the channel or the session, initialize or the call raised; the
\* agent was unavailable or raised), or the response was flagged as an error
QueryFailed ==
    /\ pc = "done"
    /\ \/ client \in McpClients /\ pending = "exception" /\ result = NoResult
       \/ client = "serena_cli" /\ pending = "none" /\ channel = "unopened"
       \/ client \in McpClients /\ result.isError
       \/ client = "native" /\ error \in NativeTransportErrors

\* C11: each of the three clients ends with exit code 0 when its query
\* completed successfully, and with a non-zero exit code when the transport
\* failed or the tool response was flagged as an error.
C11_ExitCodes ==
    /\ QuerySucceeded => exit_code = 0
    /\ QueryFailed => exit_code # 0

(***************************************************************************)
(* C13.  Failures in JSON output mode.                                     *)
(***************************************************************************)
\* C13: with --format json, a failed run of serena_cli or of the native
\* wrapper (server executable not found, transport or session exception,
\* tool response flagged as error) reports the failure as a JSON object
\* {"error": <message>} on the output stream, and prints no free-text error.
C13_JsonErrors ==
    (client \in {"serena_cli", "native"} /\ args.format = "json" /\ QueryFailed) =>
        /\ \E i \in DOMAIN stdout : stdout[i].tag = "json_error"
        /\ \A i \in DOMAIN stderr : stderr[i].tag = "warning"

(***************************************************************************)
(* C14.  Successful queries in JSON output mode.                           *)
(***************************************************************************)
\* C14: in JSON output mode, a successful query of any of the three clients
\* prints exactly one JSON object {"results": [...]} holding the final
\* record list in order; an empty list prints {"results": []}.
C14_JsonResultsObject ==
    (args.format = "json" /\ QuerySucceeded /\ exit_code = 0) =>
        stdout = <<JsonOut(output_data)>>
====
